---- MODULE Spec2Model ----
(***************************************************************************)
(* Battery monitor (battery_monitor_gui.py): the poll handler              *)
(* BatteryMonitorWindow.update_battery_display, the UPower query, the      *)
(* notification and sound helpers, and the recurring GLib timer.           *)
(*                                                                         *)
(* A percentage is a float in the program.  It is modelled as an integer   *)
(* number of 1/PctScale steps, so that readings between two whole percents *)
(* (29.5, 35.5, ...) exist and every comparison of the source is made on   *)
(* the scaled value.                                                       *)
(***************************************************************************)
EXTENDS Integers, Sequences, FiniteSets, TLC

\* ---------------------------------------------------------------- bounds
\* resolution of a percentage: steps per percentage point
PctScale == 2
\* number of poll cycles whose readings the recorded run keeps (SpecTrace)
MaxHist == 4
\* length of the device lists EnumerateDevices() returns (SpecDevices)
MaxDevices == 2

\* ------------------------------------------------------- program constants
LOW_BATTERY_THRESHOLD == 30
\* the literal 5 of "LOW_BATTERY_THRESHOLD + 5"
HYSTERESIS_MARGIN == 5
\* UPower device type of a battery ("device_type == 2")
DEVICE_TYPE_BATTERY == 2
\* Gtk.LevelBar range: set_min_value(0), set_max_value(100)
LEVEL_BAR_MIN == 0
LEVEL_BAR_MAX == 100

TRAY_ICON_NAME_FULL == "battery-full"
TRAY_ICON_NAME_GOOD == "battery-good"
TRAY_ICON_NAME_MEDIUM == "battery-caution"
TRAY_ICON_NAME_LOW == "battery-low"
TRAY_ICON_NAME_EMPTY == "battery-empty"
TRAY_ICON_NAME_CHARGING == "battery-good-charging"
TRAY_ICON_NAME_CHARGING_FULL == "battery-full-charging"
TRAY_ICON_NAME_ERROR == "dialog-error"
TRAY_ICON_NAME_DEFAULT == "battery"

\* a whole number of percentage points as a scaled percentage
Pct(n) == n * PctScale

\* ------------------------------------------------------------------ state
VARIABLES
    phase,                  \* "start": in __init__ before line 74; "running": in Gtk.main; "quit"; "crashed"
    appindicator,           \* APPINDICATOR_AVAILABLE (and self.indicator set)
    threshold,              \* the value of LOW_BATTERY_THRESHOLD the program runs with
    low_battery_notified,   \* self.low_battery_notified
    timerArmed,             \* the GLib timeout source of line 75 is installed
    input,                  \* history: what the UPower query of the last cycle was given
    outcome,                \* history: the outcomes the helper calls of the last cycle met
    query,                  \* history: how the UPower query of the last cycle ended
    reading,                \* what get_battery_info_sync returned in the last cycle
    status_label,           \* text of self.status_label
    level_bar,              \* value of self.level_bar (scaled)
    tray,                   \* icon and tooltip of self.indicator
    notifyResult,           \* outcome of send_notification_sync in the last cycle
    soundResult,            \* outcome of play_sound_sync in the last cycle
    log,                    \* the side effects of the last cycle, in program order
    notified_before,        \* history: low_battery_notified when the last cycle started
    lastDecisive,           \* history: the latest reading that was low-discharging ("low") or above the reset bound ("high")
    alertsSinceHigh,        \* history: alerts emitted since the latest reading above the reset bound
    everAlerted,            \* history: some cycle emitted an alert
    hist                    \* history: the recorded run (SpecTrace only)

vars == <<phase, appindicator, threshold, low_battery_notified, timerArmed,
          input, outcome, query, reading,
          status_label, level_bar, tray, notifyResult, soundResult, log,
          notified_before, lastDecisive, alertsSinceHigh, everAlerted, hist>>

\* ------------------------------------------------ get_battery_info_sync
\* a device of EnumerateDevices(): whether its object path contains
\* "battery", its Type, Percentage and State properties
Device(named, type, pct, state) ==
    [named |-> named, type |-> type, percentage |-> pct, state |-> state]

\* a variant of line 145 that forgets the pending state
IsDischargingNoPending(state) == state = 2

\* lines 145-146
IsDischarging(state) == state = 2 \/ state = 6
IsCharging(state) == state = 1 \/ state = 5

\* a reading is the tuple get_battery_info_sync returns; is_none says that its
\* percentage is None (the percentage field is then never read)
NoReading ==
    [is_none |-> TRUE, percentage |-> 0, is_discharging |-> FALSE, is_charging |-> FALSE]

\* lines 137-149: the for loop over the enumerated devices
RECURSIVE ScanDevices(_)
ScanDevices(devices) ==
    IF devices = <<>> THEN NoReading
    ELSE LET dev == Head(devices) IN
         IF dev.named /\ dev.type = DEVICE_TYPE_BATTERY
         THEN [is_none |-> FALSE, percentage |-> dev.percentage,
               is_discharging |-> IsDischarging(dev.state),
               is_charging |-> IsCharging(dev.state)]
         ELSE ScanDevices(Tail(devices))

\* lines 131-157: fail is "none", "dbus" (DBusException) or "other" (Exception)
GetBatteryInfoSync(fail, devices) ==
    IF fail = "none"
    THEN [result |-> ScanDevices(devices), events |-> <<"read">>]
    ELSE [result |-> NoReading, events |-> <<"read", "set_text">>]

\* ------------------------------------------------------- classification
\* f"{percentage:.0f}": the nearest integer, a tie going to the even one
FormatPct0(p) ==
    LET q == p \div PctScale
        r == p % PctScale
    IN  IF 2 * r < PctScale THEN q
        ELSE IF 2 * r > PctScale THEN q + 1
        ELSE IF q % 2 = 0 THEN q ELSE q + 1

\* a variant of lines 192-204 whose bounds are inclusive
DischargingIconInclusive(p, t) ==
    IF p >= Pct(95) THEN TRAY_ICON_NAME_FULL
    ELSE IF p >= Pct(70) THEN TRAY_ICON_NAME_GOOD
    ELSE IF p >= Pct(t) THEN TRAY_ICON_NAME_MEDIUM
    ELSE IF p >= Pct(10) THEN TRAY_ICON_NAME_LOW
    ELSE TRAY_ICON_NAME_EMPTY

\* lines 192-204
DischargingIcon(p, t) ==
    IF p > Pct(95) THEN TRAY_ICON_NAME_FULL
    ELSE IF p > Pct(70) THEN TRAY_ICON_NAME_GOOD
    ELSE IF p > Pct(t) THEN TRAY_ICON_NAME_MEDIUM
    ELSE IF p > Pct(10) THEN TRAY_ICON_NAME_LOW
    ELSE TRAY_ICON_NAME_EMPTY

\* a variant of lines 205-210 without the else of lines 209-210: below 99
\* the icon stays the one of line 182
ChargingIconNoElse(p) ==
    IF p > Pct(98) THEN TRAY_ICON_NAME_CHARGING_FULL ELSE TRAY_ICON_NAME_DEFAULT

\* lines 205-210
ChargingIcon(p) ==
    IF p > Pct(98) THEN TRAY_ICON_NAME_CHARGING_FULL ELSE TRAY_ICON_NAME_CHARGING

\* a variant of lines 211-224 with the five buckets of lines 195-204
PluggedIconWithEmpty(p, t) ==
    IF p > Pct(98) THEN TRAY_ICON_NAME_FULL
    ELSE IF p > Pct(95) THEN TRAY_ICON_NAME_FULL
    ELSE IF p > Pct(70) THEN TRAY_ICON_NAME_GOOD
    ELSE IF p > Pct(t) THEN TRAY_ICON_NAME_MEDIUM
    ELSE IF p > Pct(10) THEN TRAY_ICON_NAME_LOW
    ELSE TRAY_ICON_NAME_EMPTY

\* lines 211-224
PluggedIcon(p, t) ==
    IF p > Pct(98) THEN TRAY_ICON_NAME_FULL
    ELSE IF p > Pct(95) THEN TRAY_ICON_NAME_FULL
    ELSE IF p > Pct(70) THEN TRAY_ICON_NAME_GOOD
    ELSE IF p > Pct(t) THEN TRAY_ICON_NAME_MEDIUM
    ELSE TRAY_ICON_NAME_LOW

\* lines 191-216: current_status_text
StatusText(r) ==
    IF r.is_discharging THEN "Discharging"
    ELSE IF r.is_charging THEN "Charging"
    ELSE IF r.percentage > Pct(98) THEN "Full"
    ELSE "Plugged In"

\* a variant of lines 182-228 without line 188: the icon of an absent
\* percentage stays the one of line 182
ClassifyNoErrorIcon(r, t) ==
    IF r.is_none
    THEN [icon |-> TRAY_ICON_NAME_DEFAULT,
          markup |-> [kind |-> "error", status |-> "Error retrieving data"],
          level |-> 0,
          tooltip |-> [kind |-> "error", status |-> "Error"]]
    ELSE LET text == [kind |-> "battery", pct |-> FormatPct0(r.percentage),
                      status |-> StatusText(r)]
         IN  [icon |-> IF r.is_discharging THEN DischargingIcon(r.percentage, t)
                       ELSE IF r.is_charging THEN ChargingIcon(r.percentage)
                       ELSE PluggedIcon(r.percentage, t),
              markup |-> text,
              level |-> r.percentage,
              tooltip |-> text]

\* lines 182-228: icon_to_set, the label markup, the level bar value and the tooltip
Classify(r, t) ==
    IF r.is_none
    THEN [icon |-> TRAY_ICON_NAME_ERROR,
          markup |-> [kind |-> "error", status |-> "Error retrieving data"],
          level |-> 0,
          tooltip |-> [kind |-> "error", status |-> "Error"]]
    ELSE LET text == [kind |-> "battery", pct |-> FormatPct0(r.percentage),
                      status |-> StatusText(r)]
         IN  [icon |-> IF r.is_discharging THEN DischargingIcon(r.percentage, t)
                       ELSE IF r.is_charging THEN ChargingIcon(r.percentage)
                       ELSE PluggedIcon(r.percentage, t),
              markup |-> text,
              level |-> r.percentage,
              tooltip |-> text]

\* a variant without lines 60-61: Gtk.LevelBar's default range, 0 to 1
LevelBarSetValueDefaultRange(v) ==
    IF v < Pct(0) THEN Pct(0)
    ELSE IF v > Pct(1) THEN Pct(1)
    ELSE v

\* Gtk.LevelBar.set_value clamps to the range of lines 60-61
LevelBarSetValue(v) ==
    IF v < Pct(LEVEL_BAR_MIN) THEN Pct(LEVEL_BAR_MIN)
    ELSE IF v > Pct(LEVEL_BAR_MAX) THEN Pct(LEVEL_BAR_MAX)
    ELSE v

\* ------------------------------------------- notification and sound helpers
\* a variant of lines 159-167 without the try/except: a failed Notify raises
SendNotificationSyncUncaught(ok) ==
    [events |-> <<"notify">>,
     result |-> IF ok THEN "sent" ELSE "failed",
     raised |-> ~ok]

\* lines 159-167: the whole body is inside try/except Exception, so a failed
\* Notify is printed and nothing is raised to the caller
SendNotificationSync(ok) ==
    [events |-> <<"notify">>,
     result |-> IF ok THEN "sent" ELSE "failed",
     raised |-> FALSE]

\* variants of lines 169-177: without the try/except, so that a failed
\* paplay raises; and without the existence check of lines 170-172
PlaySoundSyncUncaught(exists, ok) ==
    IF ~exists
    THEN [events |-> <<"play_sound">>, result |-> "missing", raised |-> FALSE]
    ELSE [events |-> <<"play_sound", "paplay">>,
          result |-> IF ok THEN "played" ELSE "failed",
          raised |-> ~ok]
PlaySoundSyncUnchecked(exists, ok) ==
    [events |-> <<"play_sound", "paplay">>,
     result |-> IF exists /\ ok THEN "played" ELSE "failed",
     raised |-> FALSE]

\* lines 169-177: the existence check, then paplay inside try/except Exception
PlaySoundSync(exists, ok) ==
    IF ~exists
    THEN [events |-> <<"play_sound">>, result |-> "missing", raised |-> FALSE]
    ELSE [events |-> <<"play_sound", "paplay">>,
          result |-> IF ok THEN "played" ELSE "failed",
          raised |-> FALSE]

\* ------------------------------------------------------ the alert state
\* a variant of line 230 that forgets the charge state
LowConditionAnyState(r, t) == r.percentage <= Pct(t)

\* line 230: is_discharging and percentage <= LOW_BATTERY_THRESHOLD
LowCondition(r, t) == r.is_discharging /\ r.percentage <= Pct(t)

\* variants of line 238: without the margin, only while discharging, and
\* with an inclusive bound
ResetConditionNoMargin(r, t) == r.percentage > Pct(t)
ResetConditionDischargingOnly(r, t) ==
    r.is_discharging /\ r.percentage > Pct(t + HYSTERESIS_MARGIN)
ResetConditionInclusive(r, t) == r.percentage >= Pct(t + HYSTERESIS_MARGIN)

\* line 238: percentage > LOW_BATTERY_THRESHOLD + 5
ResetCondition(r, t) == r.percentage > Pct(t + HYSTERESIS_MARGIN)

\* a cycle that leaves the flag alone and calls neither helper
NoAlert(notified) ==
    [notified |-> notified, events |-> <<>>, notifyResult |-> "none",
     soundResult |-> "none", raised |-> FALSE]

\* a variant of lines 231-237 that sets the flag before it calls the helpers
FireAlertFlagFirst(notified, fx) ==
    LET n == SendNotificationSync(fx.notifyOk)
        s == PlaySoundSync(fx.fileExists, fx.paplayOk)
    IN  [notified |-> TRUE, events |-> <<"set_notified">> \o n.events \o s.events,
         notifyResult |-> n.result, soundResult |-> s.result,
         raised |-> n.raised \/ s.raised]

\* a variant of lines 231-237 that sets the flag only if the notification
\* was delivered
FireAlertFlagIfSent(notified, fx) ==
    LET n == SendNotificationSync(fx.notifyOk)
        s == PlaySoundSync(fx.fileExists, fx.paplayOk)
    IN  IF n.result = "sent"
        THEN [notified |-> TRUE, events |-> n.events \o s.events \o <<"set_notified">>,
              notifyResult |-> n.result, soundResult |-> s.result, raised |-> FALSE]
        ELSE [notified |-> notified, events |-> n.events \o s.events,
              notifyResult |-> n.result, soundResult |-> s.result, raised |-> FALSE]

\* lines 231-237: the body of "if not self.low_battery_notified"
FireAlert(notified, fx) ==
    LET n == SendNotificationSync(fx.notifyOk)
        s == PlaySoundSync(fx.fileExists, fx.paplayOk)
    IN  IF n.raised
        THEN [notified |-> notified, events |-> n.events, notifyResult |-> n.result,
              soundResult |-> "none", raised |-> TRUE]
        ELSE IF s.raised
        THEN [notified |-> notified, events |-> n.events \o s.events,
              notifyResult |-> n.result, soundResult |-> s.result, raised |-> TRUE]
        ELSE [notified |-> TRUE, events |-> n.events \o s.events \o <<"set_notified">>,
              notifyResult |-> n.result, soundResult |-> s.result, raised |-> FALSE]

\* variants of lines 230-239: without the test of line 231, without the
\* branch of lines 238-239, and with that branch as a plain else
AlerterEveryPoll(notified, r, t, fx) ==
    IF LowCondition(r, t) THEN FireAlert(notified, fx)
    ELSE IF ResetCondition(r, t)
    THEN [NoAlert(notified) EXCEPT !.notified = FALSE, !.events = <<"clear_notified">>]
    ELSE NoAlert(notified)
AlerterNoReset(notified, r, t, fx) ==
    IF LowCondition(r, t)
    THEN IF ~notified THEN FireAlert(notified, fx) ELSE NoAlert(notified)
    ELSE NoAlert(notified)
AlerterResetOtherwise(notified, r, t, fx) ==
    IF LowCondition(r, t)
    THEN IF ~notified THEN FireAlert(notified, fx) ELSE NoAlert(notified)
    ELSE [NoAlert(notified) EXCEPT !.notified = FALSE, !.events = <<"clear_notified">>]

\* lines 230-239, for a reading whose percentage is not None
Alerter(notified, r, t, fx) ==
    IF LowCondition(r, t)
    THEN IF ~notified THEN FireAlert(notified, fx) ELSE NoAlert(notified)
    ELSE IF ResetCondition(r, t)
    THEN [NoAlert(notified) EXCEPT !.notified = FALSE, !.events = <<"clear_notified">>]
    ELSE NoAlert(notified)

\* --------------------------------------------------- update_battery_display
\* a variant of lines 179-244 that chooses the icon from the flag as well:
\* while the flag is set the indicator shows the Empty icon
UpdateBatteryDisplayAlertIcon(notified, appind, tr, in, fx) ==
    LET q == GetBatteryInfoSync(in.fail, in.devices)
        r == q.result
        c == Classify(r, threshold)
        a == IF r.is_none THEN NoAlert(notified)
             ELSE Alerter(notified, r, threshold, fx)
        seticon == appind /\ ~a.raised
        icon == IF a.notified THEN TRAY_ICON_NAME_EMPTY ELSE c.icon
    IN  [reading |-> r,
         notified |-> a.notified,
         status_label |-> c.markup,
         level_bar |-> LevelBarSetValue(c.level),
         tray |-> IF seticon THEN [icon |-> icon, tooltip |-> c.tooltip] ELSE tr,
         notifyResult |-> a.notifyResult,
         soundResult |-> a.soundResult,
         log |-> q.events \o <<"set_markup", "set_value">> \o a.events
                 \o (IF seticon THEN <<"set_icon">> ELSE <<>>),
         returned |-> ~a.raised]

\* lines 179-244.  in: the outcome of the UPower query; fx: the outcomes of the
\* notification and sound calls, read only if the calls are made; tr: the
\* indicator's icon and tooltip before the call
UpdateBatteryDisplay(notified, appind, tr, in, fx) ==
    LET q == GetBatteryInfoSync(in.fail, in.devices)
        r == q.result
        c == Classify(r, threshold)
        a == IF r.is_none THEN NoAlert(notified)
             ELSE Alerter(notified, r, threshold, fx)
        seticon == appind /\ ~a.raised
    IN  [reading |-> r,
         notified |-> a.notified,
         status_label |-> c.markup,
         level_bar |-> LevelBarSetValue(c.level),
         tray |-> IF seticon THEN [icon |-> c.icon, tooltip |-> c.tooltip] ELSE tr,
         notifyResult |-> a.notifyResult,
         soundResult |-> a.soundResult,
         log |-> q.events \o <<"set_markup", "set_value">> \o a.events
                 \o (IF seticon THEN <<"set_icon">> ELSE <<>>),
         returned |-> ~a.raised]

\* ------------------------------------------------------------------ inputs
\* UPower's State enumeration: 0 unknown, 1 charging, 2 discharging, 3 empty,
\* 4 fully charged, 5 pending charge, 6 pending discharge
RawStates == 0..6

\* the whole percentages of the recorded runs, around the threshold
TracePoints == {27, 28, 29, 30, 34, 35, 36, 40, 50}

\* the percentages at which a comparison of the source changes its answer
Boundaries ==
    {10, LOW_BATTERY_THRESHOLD, LOW_BATTERY_THRESHOLD + HYSTERESIS_MARGIN, 70, 95, 98}

\* readings at, one step and one point on either side of every boundary,
\* the ends of the range and the points of the recorded runs
Percentages ==
    {Pct(0), Pct(100)} \cup {Pct(n) : n \in TracePoints}
      \cup {Pct(b) + d : b \in Boundaries, d \in {-PctScale, -1, 0, 1, PctScale}}

LinePower == Device(FALSE, 1, 0, 0)
Battery(p, s) == Device(TRUE, DEVICE_TYPE_BATTERY, p, s)

\* what a UPower query can bring: a failure, no battery, or a battery
ReadInputs ==
    {[fail |-> f, devices |-> <<>>] : f \in {"dbus", "other"}}
      \cup {[fail |-> "none", devices |-> <<LinePower>>]}
      \cup {[fail |-> "none", devices |-> <<LinePower, Battery(p, s)>>] :
                p \in Percentages, s \in RawStates}

\* other values line 21 may be edited to: below the Empty bound, the default,
\* the Good bound and above it
Thresholds == {5, LOW_BATTERY_THRESHOLD, 70, 80}

\* the readings of a program with an edited threshold: those of ReadInputs and
\* the neighbourhood of every threshold and of its reset bound
ConfigPercentages ==
    Percentages
      \cup {Pct(t + m) + d : t \in Thresholds, m \in {0, HYSTERESIS_MARGIN},
                              d \in {-1, 0, 1}}
ConfigInputs ==
    {[fail |-> f, devices |-> <<>>] : f \in {"dbus", "other"}}
      \cup {[fail |-> "none", devices |-> <<LinePower>>]}
      \cup {[fail |-> "none", devices |-> <<LinePower, Battery(p, s)>>] :
                p \in ConfigPercentages, s \in RawStates}

\* the devices of the enumerated lists: the object path contains "battery"
\* or not, the Type is line power (1) or battery (2), and two sets of values
DeviceKinds ==
    {Device(named, type, v[1], v[2]) :
        named \in BOOLEAN, type \in {1, DEVICE_TYPE_BATTERY},
        v \in {<<Pct(50), 2>>, <<Pct(20), 1>>}}
DeviceLists == UNION {[1..n -> DeviceKinds] : n \in 0..MaxDevices}
DeviceInputs == {[fail |-> "none", devices |-> l] : l \in DeviceLists}

\* one query for every way a cycle can go: the two failures, no battery, and
\* a battery of every raw state below the threshold, within the margin and
\* above it
LiveInputs ==
    {[fail |-> f, devices |-> <<>>] : f \in {"dbus", "other"}}
      \cup {[fail |-> "none", devices |-> <<LinePower>>]}
      \cup {[fail |-> "none", devices |-> <<LinePower, Battery(Pct(n), s)>>] :
                n \in {29, 34, 36}, s \in RawStates}

\* the readings of the recorded runs: a discharging battery around the threshold
TraceInputs ==
    {[fail |-> "none", devices |-> <<LinePower, Battery(Pct(n), 2)>>] : n \in TracePoints}

\* outcomes of the notification and sound calls: Notify succeeds or not; the
\* sound file is missing, or paplay succeeds or not
Outcomes ==
    {[notifyOk |-> n, fileExists |-> e, paplayOk |-> k] :
        n \in BOOLEAN, e \in BOOLEAN, k \in BOOLEAN} \ 
    {[notifyOk |-> n, fileExists |-> FALSE, paplayOk |-> TRUE] : n \in BOOLEAN}
NoOutcome == [notifyOk |-> TRUE, fileExists |-> TRUE, paplayOk |-> TRUE]

\* the outcomes are drawn only in a cycle that reaches lines 235-236
OutcomesFor(notified, in) ==
    LET r == GetBatteryInfoSync(in.fail, in.devices).result
    IN  IF ~r.is_none /\ LowCondition(r, threshold) /\ ~notified
        THEN Outcomes ELSE {NoOutcome}

\* ---------------------------------------------- what the history records
\* the reading is discharging at or below the threshold
ReadingLow(r) ==
    ~r.is_none /\ r.is_discharging /\ r.percentage <= Pct(threshold)
\* the reading is above the threshold plus the margin
ReadingHigh(r) ==
    ~r.is_none /\ r.percentage > Pct(threshold + HYSTERESIS_MARGIN)
\* the cycle that produced outcome o called the notifier
Emitted(o) == o.notifyResult # "none"

\* ------------------------------------------------------------------- Init
\* lines 41-73: the state when __init__ reaches its first update, line 74,
\* of a program whose LOW_BATTERY_THRESHOLD is t
InitWith(t) ==
    /\ phase = "start"
    /\ appindicator \in BOOLEAN
    /\ threshold = t
    /\ low_battery_notified = FALSE
    /\ timerArmed = FALSE
    /\ input = [fail |-> "none", devices |-> <<>>]
    /\ outcome = NoOutcome
    /\ query = "none"
    /\ reading = NoReading
    /\ status_label = [kind |-> "init", status |-> "Initializing battery status..."]
    /\ level_bar = 0
    /\ tray = [icon |-> IF appindicator THEN TRAY_ICON_NAME_DEFAULT ELSE "",
               tooltip |-> [kind |-> "init", status |-> ""]]
    /\ notifyResult = "none"
    /\ soundResult = "none"
    /\ log = <<>>
    /\ notified_before = FALSE
    /\ lastDecisive = "none"
    /\ alertsSinceHigh = 0
    /\ everAlerted = FALSE
    /\ hist = <<>>

\* the program as written: line 21
Init == InitWith(LOW_BATTERY_THRESHOLD)

\* ---------------------------------------------------------------- actions
\* how a query ended: an exception, no device taken as the battery, or a battery
QueryKind(in) ==
    IF in.fail # "none" THEN in.fail
    ELSE IF \E i \in DOMAIN in.devices :
              in.devices[i].named /\ in.devices[i].type = DEVICE_TYPE_BATTERY
    THEN "battery" ELSE "nobattery"

\* one call of update_battery_display and what the history keeps of it
Cycle(in, fx, o) ==
    /\ input' = in
    /\ outcome' = fx
    /\ query' = QueryKind(in)
    /\ reading' = o.reading
    /\ low_battery_notified' = o.notified
    /\ status_label' = o.status_label
    /\ level_bar' = o.level_bar
    /\ tray' = o.tray
    /\ notifyResult' = o.notifyResult
    /\ soundResult' = o.soundResult
    /\ log' = o.log
    /\ notified_before' = low_battery_notified
    /\ lastDecisive' = IF ReadingLow(o.reading) THEN "low"
                       ELSE IF ReadingHigh(o.reading) THEN "high"
                       ELSE lastDecisive
    /\ alertsSinceHigh' =
         LET base == IF ReadingHigh(o.reading) THEN 0 ELSE alertsSinceHigh
         IN  IF Emitted(o) /\ base < 2 THEN base + 1 ELSE base
    /\ everAlerted' = (everAlerted \/ Emitted(o))
    /\ UNCHANGED <<appindicator, threshold>>

\* the entry of the recorded run for a cycle
Recorded(o) ==
    [percentage |-> o.reading.percentage, is_discharging |-> o.reading.is_discharging,
     alert |-> Emitted(o), alerted |-> o.notified]

\* lines 74-75: the initial update inside __init__, then the timer is installed;
\* an exception leaving the update would leave __init__ and main()
ConstructWith(inputs, record) ==
    /\ phase = "start"
    /\ \E in \in inputs : \E fx \in OutcomesFor(low_battery_notified, in) :
         LET o == UpdateBatteryDisplay(low_battery_notified, appindicator, tray, in, fx)
         IN  /\ Cycle(in, fx, o)
             /\ phase' = IF o.returned THEN "running" ELSE "crashed"
             /\ timerArmed' = o.returned
             /\ hist' = IF record THEN Append(hist, Recorded(o)) ELSE hist

\* the timer of line 75 fires: GLib keeps the source while the callback
\* returns True (line 244)
TimerTickWith(inputs, record) ==
    /\ phase = "running"
    /\ timerArmed
    /\ record => Len(hist) < MaxHist
    /\ \E in \in inputs : \E fx \in OutcomesFor(low_battery_notified, in) :
         LET o == UpdateBatteryDisplay(low_battery_notified, appindicator, tray, in, fx)
         IN  /\ Cycle(in, fx, o)
             /\ timerArmed' = o.returned
             /\ hist' = IF record THEN Append(hist, Recorded(o)) ELSE hist
    /\ UNCHANGED phase

Construct == ConstructWith(ReadInputs, FALSE)
TimerTick == TimerTickWith(ReadInputs, FALSE)

\* lines 126-129: Gtk.main_quit ends the main loop and with it the timer
Quit ==
    /\ phase = "running"
    /\ phase' = "quit"
    /\ timerArmed' = FALSE
    /\ UNCHANGED <<appindicator, threshold, low_battery_notified, input, outcome,
                   query, reading, status_label,
                   level_bar, tray, notifyResult, soundResult, log, notified_before,
                   lastDecisive, alertsSinceHigh, everAlerted, hist>>

Next == Construct \/ TimerTick \/ Quit

Spec == Init /\ [][Next]_vars

\* the program under its scheduling: __init__ runs to its end, and while
\* Gtk.main runs the timer of line 75 fires again and again; the user may
\* never quit
ConstructLive == ConstructWith(LiveInputs, FALSE)
TimerTickLive == TimerTickWith(LiveInputs, FALSE)

NextLive == ConstructLive \/ TimerTickLive \/ Quit

SpecLive ==
    Init /\ [][NextLive]_vars /\ WF_vars(ConstructLive) /\ WF_vars(TimerTickLive)

\* the recorded runs: the first MaxHist cycles of a discharging battery
ConstructTraced == ConstructWith(TraceInputs, TRUE)
TimerTickTraced == TimerTickWith(TraceInputs, TRUE)

NextTrace == ConstructTraced \/ TimerTickTraced

SpecTrace == Init /\ [][NextTrace]_vars

\* the program with line 21 edited to one of Thresholds
InitConfig == \E t \in Thresholds : InitWith(t)
ConstructConfig == ConstructWith(ConfigInputs, FALSE)
TimerTickConfig == TimerTickWith(ConfigInputs, FALSE)

NextConfig == ConstructConfig \/ TimerTickConfig \/ Quit

SpecConfig == InitConfig /\ [][NextConfig]_vars

\* the program before every list of devices EnumerateDevices() can return
ConstructDevices == ConstructWith(DeviceInputs, FALSE)
TimerTickDevices == TimerTickWith(DeviceInputs, FALSE)

NextDevices == ConstructDevices \/ TimerTickDevices \/ Quit

SpecDevices == Init /\ [][NextDevices]_vars

\* ------------------------------------------------------------ properties
\* at least one poll cycle has run: the state shows the last cycle
Polled == phase # "start"

Count(seq, e) == Cardinality({i \in DOMAIN seq : seq[i] = e})
Pos(seq, e) == CHOOSE i \in DOMAIN seq : seq[i] = e
Before(seq, a, b) ==
    (Count(seq, a) > 0 /\ Count(seq, b) > 0) => Pos(seq, a) < Pos(seq, b)

\* the last cycle emitted one alert: one notification, then one call of the
\* sound player
OneAlert ==
    /\ Count(log, "notify") = 1
    /\ Count(log, "play_sound") = 1
    /\ Pos(log, "notify") < Pos(log, "play_sound")
\* the last cycle called neither the notifier nor the sound player
NothingEmitted ==
    /\ Count(log, "notify") = 0
    /\ Count(log, "play_sound") = 0
    /\ Count(log, "paplay") = 0
    /\ notifyResult = "none"
    /\ soundResult = "none"

\* C1: a cycle emits an alert (one notification followed by one call of the
\* sound player) exactly when the flag was false at its start and its reading
\* is Discharging at or below the threshold; every other cycle, a low
\* Discharging reading with the flag already set included, emits nothing.
\* The sound-play attempt is the call of play_sound_sync (line 236), which
\* itself runs paplay only if the sound file exists.
C1_AlertIffIdleAndLow ==
    Polled =>
        /\ OneAlert \/ NothingEmitted
        /\ OneAlert <=> (~notified_before /\ ReadingLow(reading))
\* a low Discharging reading arrives while the flag is set, and nothing is emitted
C1_Witness ==
    /\ Polled
    /\ notified_before
    /\ ReadingLow(reading)
    /\ NothingEmitted
    /\ low_battery_notified

\* C2 as stated: after a cycle the flag is set only if the last reading was
\* Discharging at or below the threshold.
C2_Original == (Polled /\ low_battery_notified) => ReadingLow(reading)
\* C2 amended: the flag is set only if the latest reading that was either
\* Discharging at or below the threshold or above threshold + 5 was the
\* former; readings that are neither (absent, not Discharging at or below
\* threshold + 5, Discharging within the margin) keep a set flag set.
C2_AlertedOnlySinceLow ==
    (Polled /\ low_battery_notified) =>
        /\ lastDecisive = "low"
        /\ ~ReadingHigh(reading)
\* the flag is set although the last reading is not a low Discharging one
C2_Witness ==
    /\ Polled
    /\ low_battery_notified
    /\ ~ReadingLow(reading)

\* C3: a cycle that starts with the flag set and reads a percentage above
\* threshold + 5 ends with the flag clear and emits nothing, whatever the
\* charge state of the reading.
C3_ResetAboveMargin ==
    (Polled /\ notified_before /\ ReadingHigh(reading)) =>
        /\ ~low_battery_notified
        /\ NothingEmitted
\* the flag is cleared by a Charging reading above the margin
C3_Witness ==
    /\ Polled
    /\ notified_before
    /\ ReadingHigh(reading)
    /\ reading.is_charging
    /\ ~low_battery_notified

\* C4: a cycle whose reading is neither Discharging at or below the threshold
\* nor above threshold + 5 leaves the flag as it was and emits nothing.
C4_OtherReadingsKeepState ==
    (Polled /\ ~ReadingLow(reading) /\ ~ReadingHigh(reading)) =>
        /\ low_battery_notified = notified_before
        /\ NothingEmitted
\* a Discharging reading of 34 leaves a set flag set
C4_Witness ==
    /\ Polled
    /\ notified_before
    /\ reading.is_discharging
    /\ ~reading.is_none
    /\ reading.percentage = Pct(LOW_BATTERY_THRESHOLD + 4)
    /\ low_battery_notified

\* C5: between two alerts there is a cycle that read a percentage above
\* threshold + 5: no more than one alert has been emitted since the latest
\* such reading (or since the start).
C5_OneAlertPerExcursion == alertsSinceHigh <= 1
\* after an alert, a Charging reading at or below the threshold is followed by
\* nothing new: the one alert stands
C5_Witness ==
    /\ Polled
    /\ alertsSinceHigh = 1
    /\ notified_before
    /\ ~reading.is_none
    /\ reading.is_charging
    /\ reading.percentage <= Pct(LOW_BATTERY_THRESHOLD)
    /\ NothingEmitted

\* ----------------------------------------------------- the recorded runs
\* the flag when recorded cycle i started (line 49 before the first)
PrevAlerted(i) == IF i = 1 THEN FALSE ELSE hist[i - 1].alerted
HistLow(i) ==
    hist[i].is_discharging /\ hist[i].percentage <= Pct(LOW_BATTERY_THRESHOLD)
HistHigh(i) == hist[i].percentage > Pct(LOW_BATTERY_THRESHOLD + HYSTERESIS_MARGIN)
\* the run began with Discharging readings of these whole percentages
Starts(points) ==
    /\ Len(hist) >= Len(points)
    /\ \A i \in DOMAIN points :
         hist[i].is_discharging /\ hist[i].percentage = Pct(points[i])
AlertsOf(n) == [i \in 1..n |-> hist[i].alert]
StatesOf(n) == [i \in 1..n |-> hist[i].alerted]

\* C6: a reading above threshold + 5 leaves the flag clear, and after an alert
\* and such a reading the next low Discharging reading emits an alert again;
\* the Discharging run 29, 36, 29 emits two alerts.
C6_Rearm ==
    /\ \A j \in DOMAIN hist : HistHigh(j) => (~hist[j].alerted /\ ~hist[j].alert)
    /\ \A i, j, k \in DOMAIN hist :
         (/\ i < j /\ j < k
          /\ hist[i].alert
          /\ HistHigh(j)
          /\ HistLow(k)
          /\ \A m \in (j + 1)..(k - 1) : ~HistLow(m)) => hist[k].alert
    /\ Starts(<<29, 36, 29>>) => AlertsOf(3) = <<TRUE, FALSE, TRUE>>
\* the run 29, 36, 29 has happened and its third cycle alerted
C6_Witness ==
    /\ Starts(<<29, 36, 29>>)
    /\ hist[1].alert
    /\ ~hist[2].alerted
    /\ hist[3].alert

\* C7: a cycle whose query failed or found no battery has an absent
\* percentage, shows the error text and the error icon, leaves the flag as it
\* was and emits nothing.
C7_AbsentPercentageIsError ==
    (Polled /\ (query # "battery" \/ reading.is_none)) =>
        /\ reading.is_none
        /\ status_label = [kind |-> "error", status |-> "Error retrieving data"]
        /\ appindicator =>
             tray = [icon |-> TRAY_ICON_NAME_ERROR,
                     tooltip |-> [kind |-> "error", status |-> "Error"]]
        /\ low_battery_notified = notified_before
        /\ NothingEmitted
\* a query fails while the flag is set: error shown, flag still set
C7_Witness ==
    /\ Polled
    /\ query = "dbus"
    /\ notified_before
    /\ low_battery_notified
    /\ appindicator
    /\ tray.icon = TRAY_ICON_NAME_ERROR

\* what the program keeps of a cycle: flag, label, level bar, indicator and
\* the value returned to the timer
Kept(o) == <<o.notified, o.status_label, o.level_bar, o.tray, o.returned>>

\* C8: whatever the outcomes of the notification and of the sound playback,
\* a cycle keeps what it keeps when both succeed; an alerting cycle sets the
\* flag, updates the indicator and leaves the timer installed.
C8_DeliveryFailureIgnored ==
    /\ \A in \in ReadInputs : \A fx \in Outcomes :
         Kept(UpdateBatteryDisplay(low_battery_notified, appindicator, tray, in, fx))
           = Kept(UpdateBatteryDisplay(low_battery_notified, appindicator, tray, in,
                                       NoOutcome))
    /\ (Polled /\ notifyResult # "none") =>
         /\ low_battery_notified
         /\ phase # "crashed"
         /\ phase = "running" => timerArmed
         /\ appindicator =>
              /\ Count(log, "set_icon") = 1
              /\ tray.icon \in {TRAY_ICON_NAME_LOW, TRAY_ICON_NAME_EMPTY}
\* an alerting cycle in which both deliveries failed has completed
C8_Witness ==
    /\ phase = "running"
    /\ notifyResult = "failed"
    /\ soundResult = "failed"
    /\ low_battery_notified
    /\ timerArmed
    /\ Count(log, "set_icon") = 1

\* C9: a cycle makes one query, publishes one classification (one label text,
\* one level, at most one icon), writes the flag at most once, and calls the
\* notifier and the sound player at most once each; the notification comes
\* before the sound, and both before the flag is set and the icon is updated.
C9_OncePerCycleInOrder ==
    Polled =>
        /\ Count(log, "read") = 1
        /\ log[1] = "read"
        /\ Count(log, "set_markup") = 1
        /\ Count(log, "set_value") = 1
        /\ Count(log, "set_icon") = (IF appindicator THEN 1 ELSE 0)
        /\ Count(log, "set_notified") + Count(log, "clear_notified") <= 1
        /\ Count(log, "notify") <= 1
        /\ Count(log, "play_sound") <= 1
        /\ Count(log, "paplay") <= Count(log, "play_sound")
        /\ Count(log, "notify") = 1 => Count(log, "set_notified") = 1
        /\ Before(log, "read", "set_markup")
        /\ Before(log, "notify", "play_sound")
        /\ Before(log, "notify", "set_notified")
        /\ Before(log, "play_sound", "set_notified")
        /\ Before(log, "notify", "set_icon")
        /\ Before(log, "play_sound", "set_icon")
        /\ Before(log, "set_notified", "set_icon")
\* a cycle with every step: query, display, notification, sound, flag, icon
C9_Witness ==
    log = <<"read", "set_markup", "set_value", "notify", "play_sound", "paplay",
            "set_notified", "set_icon">>

\* C10: the threshold is inclusive and the reset bound exclusive: from a clear
\* flag a Discharging reading of exactly the threshold alerts; from a set flag
\* threshold + 5 keeps it and threshold + 6 clears it; the Discharging run
\* 50, 30, 30, 40 alerts at its second cycle only, the flag being clear, set,
\* set, clear after the four cycles.
C10_InclusiveThresholdExclusiveReset ==
    /\ \A i \in DOMAIN hist :
         (~PrevAlerted(i) /\ hist[i].is_discharging
            /\ hist[i].percentage = Pct(LOW_BATTERY_THRESHOLD)) =>
              (hist[i].alert /\ hist[i].alerted)
    /\ \A i \in DOMAIN hist :
         (PrevAlerted(i)
            /\ hist[i].percentage = Pct(LOW_BATTERY_THRESHOLD + HYSTERESIS_MARGIN)) =>
              (hist[i].alerted /\ ~hist[i].alert)
    /\ \A i \in DOMAIN hist :
         (PrevAlerted(i)
            /\ hist[i].percentage = Pct(LOW_BATTERY_THRESHOLD + HYSTERESIS_MARGIN + 1)) =>
              (~hist[i].alerted /\ ~hist[i].alert)
    /\ Starts(<<50, 30, 30, 40>>) =>
         /\ AlertsOf(4) = <<FALSE, TRUE, FALSE, FALSE>>
         /\ StatesOf(4) = <<FALSE, TRUE, TRUE, FALSE>>
\* the run 50, 30, 30, 40 has happened
C10_Witness ==
    /\ Starts(<<50, 30, 30, 40>>)
    /\ hist[2].alert
    /\ ~hist[4].alerted

\* ------------------------------------------------------- classification
\* the reading of the last cycle has a percentage and this charge state
Shows(kind) ==
    /\ Polled
    /\ ~reading.is_none
    /\ CASE kind = "discharging" -> reading.is_discharging
         [] kind = "charging" -> ~reading.is_discharging /\ reading.is_charging
         [] kind = "neither" -> ~reading.is_discharging /\ ~reading.is_charging
\* the label and the tooltip carry this status text
Labelled(text) ==
    /\ status_label.kind = "battery"
    /\ status_label.status = text
    /\ appindicator => tray.tooltip = status_label

\* C11: a Discharging reading with percentage p is labelled Discharging and
\* its icon is Full if p > 95, else Good if p > 70, else Medium if p > t, else
\* Low if p > 10, else Empty; with t = 30: 96 Full, 95 Good, 71 Good,
\* 70 Medium, 31 Medium, 30 Low, 11 Low, 10 Empty.
C11_DischargingBuckets ==
    (Shows("discharging") /\ appindicator) =>
        LET p == reading.percentage IN
        /\ Labelled("Discharging")
        /\ tray.icon = IF p > Pct(95) THEN "battery-full"
                       ELSE IF p > Pct(70) THEN "battery-good"
                       ELSE IF p > Pct(threshold) THEN "battery-caution"
                       ELSE IF p > Pct(10) THEN "battery-low"
                       ELSE "battery-empty"
        /\ threshold = 30 =>
             /\ p = Pct(96) => tray.icon = "battery-full"
             /\ p = Pct(95) => tray.icon = "battery-good"
             /\ p = Pct(71) => tray.icon = "battery-good"
             /\ p = Pct(70) => tray.icon = "battery-caution"
             /\ p = Pct(31) => tray.icon = "battery-caution"
             /\ p = Pct(30) => tray.icon = "battery-low"
             /\ p = Pct(11) => tray.icon = "battery-low"
             /\ p = Pct(10) => tray.icon = "battery-empty"
\* a Discharging reading of exactly 70 is shown with the Medium icon
C11_Witness ==
    /\ Shows("discharging")
    /\ appindicator
    /\ threshold = 30
    /\ reading.percentage = Pct(70)
    /\ tray.icon = TRAY_ICON_NAME_MEDIUM

\* C12: a reading that is neither Discharging nor Charging is labelled Full
\* with the Full icon if p > 98; otherwise Plugged In with the icon Full if
\* p > 95, else Good if p > 70, else Medium if p > threshold, else Low.  It
\* never gets the Empty icon and never emits an alert.
C12_PluggedBuckets ==
    Shows("neither") =>
        LET p == reading.percentage IN
        /\ Labelled(IF p > Pct(98) THEN "Full" ELSE "Plugged In")
        /\ appindicator =>
             /\ tray.icon = IF p > Pct(95) THEN "battery-full"
                            ELSE IF p > Pct(70) THEN "battery-good"
                            ELSE IF p > Pct(threshold) THEN "battery-caution"
                            ELSE "battery-low"
             /\ tray.icon # "battery-empty"
        /\ NothingEmitted
        /\ low_battery_notified => notified_before
\* a plugged-in battery at 10 or less is shown with the Low icon, no alert
C12_Witness ==
    /\ Shows("neither")
    /\ appindicator
    /\ reading.percentage <= Pct(10)
    /\ tray.icon = TRAY_ICON_NAME_LOW
    /\ status_label.status = "Plugged In"
    /\ NothingEmitted

\* ------------------------------------------------------------ the query
\* the position in the last query's device list of the device the reading
\* was taken from: the first whose path names a battery and whose Type is 2
TakenFrom ==
    CHOOSE i \in DOMAIN input.devices :
        /\ input.devices[i].named /\ input.devices[i].type = 2
        /\ \A j \in 1..(i - 1) :
             ~(input.devices[j].named /\ input.devices[j].type = 2)

\* C13: the raw state of the selected battery gives the charge state: 2 or 6
\* Discharging, 1 or 5 Charging, any other neither; never both; a failed read
\* or a read without a battery gives neither.
C13_RawStateMapping ==
    Polled =>
        /\ ~(reading.is_discharging /\ reading.is_charging)
        /\ query # "battery" => (~reading.is_discharging /\ ~reading.is_charging)
        /\ query = "battery" =>
             LET state == input.devices[TakenFrom].state IN
             /\ reading.is_discharging <=> state \in {2, 6}
             /\ reading.is_charging <=> state \in {1, 5}
\* a battery in the pending-discharge state 6 is read as Discharging
C13_Witness ==
    /\ Polled
    /\ query = "battery"
    /\ input.devices[TakenFrom].state = 6
    /\ reading.is_discharging
    /\ ~reading.is_charging

\* the position of the first enumerated device whose Type is battery
FirstOfTypeBattery ==
    CHOOSE i \in DOMAIN input.devices :
        /\ input.devices[i].type = 2
        /\ \A j \in 1..(i - 1) : input.devices[j].type # 2

\* C14: if the enumerated list holds a device whose type is battery, the
\* reading is taken from the first such device; the percentage is absent only
\* if no enumerated device is of type battery (or the query failed).
C14_FirstBatteryByType ==
    (Polled /\ input.fail = "none") =>
        IF \E i \in DOMAIN input.devices : input.devices[i].type = 2
        THEN LET dev == input.devices[FirstOfTypeBattery] IN
             /\ ~reading.is_none
             /\ reading.percentage = dev.percentage
             /\ reading.is_discharging <=> dev.state \in {2, 6}
             /\ reading.is_charging <=> dev.state \in {1, 5}
        ELSE reading.is_none

\* ---------------------------------------------------------------- timer
\* C15: no cycle stops the poller: every call of the handler, on every path,
\* returns True, so that the timer stays installed while the main loop runs,
\* and under a fair timer poll cycles occur again and again until the user
\* quits.
C15_PollerNeverStops ==
    /\ [](Polled => phase \in {"running", "quit"})
    /\ [](phase = "running" => timerArmed)
    /\ <>(phase = "quit") \/ []<><<TimerTickLive>>_vars
\* a cycle whose notification failed and whose sound file was missing has
\* left the timer installed
C15_Witness ==
    /\ phase = "running"
    /\ timerArmed
    /\ notifyResult = "failed"
    /\ soundResult = "missing"

\* ---------------------------------------------------------------- sound
\* C16: playback is attempted only if the sound file exists when the alerting
\* cycle looks for it; in an alerting cycle that finds the file missing no
\* playback is invoked, the notification of that cycle is still attempted
\* (and sent when the notification service accepts it), the flag is set and
\* the cycle completes: the icon is updated and the timer stays installed.
C16_SoundOnlyIfFileExists ==
    /\ Count(log, "paplay") >= 1 => (outcome.fileExists /\ notifyResult # "none")
    /\ (Polled /\ notifyResult # "none" /\ ~outcome.fileExists) =>
         /\ Count(log, "play_sound") = 1
         /\ Count(log, "paplay") = 0
         /\ soundResult = "missing"
         /\ Count(log, "notify") = 1
         /\ Pos(log, "notify") < Pos(log, "play_sound")
         /\ outcome.notifyOk => notifyResult = "sent"
         /\ low_battery_notified
         /\ Count(log, "set_notified") = 1
         /\ phase \in {"running", "quit"}
         /\ phase = "running" => timerArmed
         /\ appindicator => Count(log, "set_icon") = 1
\* an alerting cycle found the file missing: the notification went out and
\* the player was never started
C16_Witness ==
    /\ phase = "running"
    /\ ~outcome.fileExists
    /\ notifyResult = "sent"
    /\ soundResult = "missing"
    /\ Count(log, "paplay") = 0
    /\ low_battery_notified
    /\ ~notified_before

\* ------------------------------------------------------ non-interference
\* the indicator as __init__ leaves it at line 101, before any cycle
FreshTray ==
    [icon |-> IF appindicator THEN TRAY_ICON_NAME_DEFAULT ELSE "",
     tooltip |-> [kind |-> "init", status |-> ""]]

\* C17: what a cycle shows (label text, level, icon and tooltip) depends on
\* the reading of that cycle and on the threshold only: the same handler run
\* from any value of the flag, from the indicator of any earlier cycle, with
\* any notification and sound outcomes, and on any query result that gives
\* the same reading, shows what the last cycle showed.
C17_ClassificationDependsOnReadingOnly ==
    Polled =>
        \A in \in {i \in ReadInputs :
                     GetBatteryInfoSync(i.fail, i.devices).result = reading} :
          \A n \in BOOLEAN : \A fx \in Outcomes : \A tr \in {tray, FreshTray} :
            LET o == UpdateBatteryDisplay(n, appindicator, tr, in, fx) IN
            /\ o.reading = reading
            /\ o.status_label = status_label
            /\ o.level_bar = level_bar
            /\ appindicator => o.tray = tray
\* a low Discharging reading shown by a cycle that began with the flag set
\* and emitted nothing
C17_Witness ==
    /\ Shows("discharging")
    /\ ReadingLow(reading)
    /\ notified_before
    /\ NothingEmitted
    /\ appindicator
    /\ tray.icon \in {TRAY_ICON_NAME_LOW, TRAY_ICON_NAME_EMPTY}

\* ------------------------------------------------------------ level bar
\* C18: after every cycle the level bar holds the percentage of that cycle's
\* reading, or 0 when the percentage is absent, whatever it held before, and
\* its value lies within 0..100.
C18_LevelBarFollowsReading ==
    Polled =>
        /\ level_bar = (IF reading.is_none THEN 0 ELSE reading.percentage)
        /\ level_bar >= Pct(LEVEL_BAR_MIN)
        /\ level_bar <= Pct(LEVEL_BAR_MAX)
        /\ Count(log, "set_value") = 1
\* a failed query after a reading above the reset bound: the bar is back at 0
C18_Witness ==
    /\ Polled
    /\ query = "dbus"
    /\ reading.is_none
    /\ lastDecisive = "high"
    /\ level_bar = 0

\* ------------------------------------------------------------- the flag
\* C19: the flag starts false; the first cycle runs inside the constructor,
\* before the timer is installed and so before any tick; and after every
\* cycle, the first included, whose reading is Discharging at or below the
\* threshold the flag is set.
C19_LowReadingLeavesFlagSet ==
    /\ phase = "start" =>
         (~low_battery_notified /\ ~timerArmed /\ log = <<>> /\ ~everAlerted)
    /\ timerArmed => Polled
    /\ (Polled /\ ReadingLow(reading)) => low_battery_notified
\* a low Discharging reading whose notification failed and whose sound file
\* was missing has set the flag all the same
C19_Witness ==
    /\ Polled
    /\ ReadingLow(reading)
    /\ ~notified_before
    /\ notifyResult = "failed"
    /\ soundResult = "missing"
    /\ low_battery_notified

\* ------------------------------------------------------ alert and icon
\* the eight icons of lines 29-36
StatusIcons ==
    {TRAY_ICON_NAME_ERROR, TRAY_ICON_NAME_FULL, TRAY_ICON_NAME_GOOD,
     TRAY_ICON_NAME_MEDIUM, TRAY_ICON_NAME_LOW, TRAY_ICON_NAME_EMPTY,
     TRAY_ICON_NAME_CHARGING, TRAY_ICON_NAME_CHARGING_FULL}

\* C20: with a threshold of at most 70 (30 as written) an alert is emitted
\* only in a cycle whose label is Discharging and whose icon is Low or Empty;
\* and the icon a cycle chooses, and sets on the indicator, is one of Error,
\* Full, Good, Medium, Low, Empty, Charging and ChargingFull, never the
\* default fallback icon.
C20_AlertOnlyWithLowIcon ==
    Polled =>
        LET icon == Classify(reading, threshold).icon IN
        /\ (threshold <= 70 /\ notifyResult # "none") =>
             /\ status_label.kind = "battery"
             /\ status_label.status = "Discharging"
             /\ icon \in {TRAY_ICON_NAME_LOW, TRAY_ICON_NAME_EMPTY}
        /\ icon \in StatusIcons
        /\ icon # TRAY_ICON_NAME_DEFAULT
        /\ appindicator => (tray.icon = icon /\ Count(log, "set_icon") = 1)
\* with the threshold at 70 an alert at exactly 70 is shown with the Low icon
C20_Witness ==
    /\ Polled
    /\ threshold = 70
    /\ notifyResult # "none"
    /\ reading.percentage = Pct(70)
    /\ status_label.status = "Discharging"
    /\ appindicator
    /\ tray.icon = TRAY_ICON_NAME_LOW

====
